---- MODULE Spec2Model ----
(***************************************************************************)
(* Model of the alert dispatcher of the VectorGov TypeScript SDK           *)
(* (src/src/alerts.ts, class AlertManager).                                *)
(*                                                                         *)
(* State: the dispatcher's config, its cooldownCache (Map<string,number>), *)
(* its logHandler, the wall clock read by Date.now(), and the send() calls *)
(* that are in flight or have returned.  send() is an async function: it   *)
(* runs synchronously up to `await this.sendToWebhook(alert)` and resumes  *)
(* when that promise settles, so a call is modelled by the action Call     *)
(* (everything up to the first await, or up to the return) and the action  *)
(* ResumeWebhook (everything from one await up to the next, or up to the   *)
(* return).  Other calls may run between the two.                          *)
(*                                                                         *)
(* Spec is the dispatcher under a caller that awaits each send() before    *)
(* the next one (`await alerts.send(...)`, as in the README), with every   *)
(* configuration and every option; SpecConcurrent is the dispatcher under  *)
(* a caller that starts a send() while another is suspended.               *)
(***************************************************************************)
EXTENDS Integers, Sequences, FiniteSets, TLC

\* ---------------------------------------------------------------- bounds
NumSlots == 2            \* send() calls that may be in flight together
MaxTicks == 2            \* clock advances per behaviour
MaxCooldownSeconds == 1  \* largest explicit cooldownSeconds tried
MaxChannels == 2         \* longest caller-supplied channels array

\* ------------------------------------------------------- program constants
DefaultCooldownSeconds == 60
MsPerSecond == 1000
KeyPrefixLength == 10    \* apiKey.substring(0, 10)
FieldValueLength == 100  \* String(value).substring(0, 100)
Hundred == 100           \* hundredths in a unit of risk score
CriticalRisk == 80       \* riskScore >= 0.8, in hundredths
ErrorRisk == 50          \* riskScore >= 0.5, in hundredths
ServerErrorStatus == 500 \* statusCode >= 500

\* The clock is observed every half second.
TickMs == MsPerSecond \div 2

\* An optional value (a field declared with `?`): Undefined when it is missing,
\* Some(v) when it holds v; Get reads a value that is present.
Undefined == <<>>

Some(v) == <<v>>

Get(a) == a[1]

Optional(S) == {Undefined} \cup {Some(v) : v \in S}

SEVERITY_ORDER == <<"info", "warning", "error", "critical">>

AlertSeverity == {"info", "warning", "error", "critical"}
AlertChannel == {"log", "webhook"}
WebhookType == {"slack", "discord", "generic"}

\* The webhook URL a caller may configure ("" is the unconfigured URL).
WebhookUrls == {"", "https://hooks.example/x"}

\* Log handlers a caller may register: one that returns, one that throws.
LogHandlers == {"hReturns", "hThrows"}

\* What the awaited fetch() can do.
FetchOutcomes == {"ok", "non2xx", "networkError"}

Slots == 1..NumSlots

VARIABLES
  config,         \* this.config (Required<AlertConfig>)
  cooldownCache,  \* this.cooldownCache: alertType -> ms timestamp
  logHandler,     \* this.logHandler, "null" when none is registered
  clock,          \* Date.now(), in ms
  sends,          \* per slot: the send() call suspended there, if any
  returned,       \* the send() call that returned in the last step, if any
  lastSuccess,    \* history: alertType -> time of the last return with sent=true
  lastSuccessOfPair, \* history: <<source, title>> -> time of that return
  callerChannels  \* the channels array a caller keeps and hands to the
                  \* constructor, as written and as it is now; Undefined
                  \* when the caller keeps none

vars == <<config, cooldownCache, logHandler, clock, sends, returned,
          lastSuccess, lastSuccessOfPair, callerChannels>>

\* ------------------------------------------------------------ JS helpers
\* Array.prototype.indexOf (0-based, -1 when absent)
indexOf(arr, x) ==
  IF \E i \in 1..Len(arr) : arr[i] = x
  THEN (CHOOSE i \in 1..Len(arr) :
          arr[i] = x /\ \A j \in 1..(i - 1) : arr[j] # x) - 1
  ELSE -1

\* Array.prototype.includes
includes(arr, x) == \E i \in 1..Len(arr) : arr[i] = x

\* a ?? b
Coalesce(a, b) == IF a = Undefined THEN b ELSE Get(a)

\* An object of type Record<string, unknown> is the sequence of its
\* <<key, value>> entries in insertion order (the order JSON.stringify and
\* Object.entries follow).  A value is a string or a number; a number is
\* carried by its decimal text, String(n).
Str(s) == <<"string", s>>

Num(text) == <<"number", text>>

\* The value of a property that holds undefined.
Undef == <<"undefined", "">>

\* JSON.stringify leaves out the properties that hold undefined.
IsDefinedEntry(e) == e[2] # Undef

HasKey(obj, k) == \E i \in 1..Len(obj) : obj[i][1] = k

\* { ...obj, ...more }: an entry of `more` replaces the value of a key obj
\* has, in place, and is appended otherwise.
RECURSIVE Spread(_, _)
Spread(obj, more) ==
  IF more = <<>> THEN obj
  ELSE LET e == Head(more)
           put == IF HasKey(obj, e[1])
                  THEN [i \in 1..Len(obj) |-> IF obj[i][1] = e[1] THEN e ELSE obj[i]]
                  ELSE Append(obj, e)
       IN Spread(put, Tail(more))

\* JSON.stringify of a value and of an object (the strings in use hold no
\* character that JSON escapes).
JSONValue(v) == IF v[1] = "string" THEN "\"" \o v[2] \o "\"" ELSE v[2]

RECURSIVE JSONEntries(_)
JSONEntries(obj) ==
  IF obj = <<>> THEN ""
  ELSE "\"" \o Head(obj)[1] \o "\":" \o JSONValue(Head(obj)[2])
       \o (IF Len(obj) > 1 THEN "," ELSE "") \o JSONEntries(Tail(obj))

JSONstringify(obj) == "{" \o JSONEntries(SelectSeq(obj, IsDefinedEntry)) \o "}"

\* ---------------------------------------------------------- constructor
\* new AlertManager(c): defaults, then the implicit webhook channel.
AlertManager(c) ==
  LET cfg == [minSeverity     |-> Coalesce(c.minSeverity, "warning"),
              webhookUrl      |-> Coalesce(c.webhookUrl, ""),
              webhookEnabled  |-> Coalesce(c.webhookEnabled, FALSE),
              webhookType     |-> Coalesce(c.webhookType, "slack"),
              cooldownSeconds |-> Coalesce(c.cooldownSeconds, DefaultCooldownSeconds),
              channels        |-> Coalesce(c.channels, <<"log">>)]
  IN IF cfg.webhookEnabled /\ cfg.webhookUrl # "" /\ ~includes(cfg.channels, "webhook")
     THEN [cfg EXCEPT !.channels = Append(@, "webhook")]
     ELSE cfg

\* Arrays of channels up to MaxChannels long.
ChannelArrays == UNION {[1..n -> AlertChannel] : n \in 0..MaxChannels}

\* The configurations a caller may pass to the constructor; webhookType,
\* which only shapes the body of the POST, is left to its default.
CallerConfigs ==
  [minSeverity     : Optional(AlertSeverity),
   webhookUrl      : Optional(WebhookUrls),
   webhookEnabled  : Optional(BOOLEAN),
   webhookType     : {Undefined},
   cooldownSeconds : Optional(0..MaxCooldownSeconds),
   channels        : Optional(ChannelArrays)]

\* ------------------------------------------------------------- send input
\* Sources, titles and messages a caller may pass.
Sources == {"a"}
Titles == {"c"}
Messages == {"m"}

\* Math.random().toString(36).substring(2, 9)
RandomSuffixes == {"k3x9q2a"}

\* SendAlertOptions.  send() only copies message and details into the Alert:
\* its direct callers pass one message and no details.  bypassCooldown is
\* read as a truth value: FALSE stands for false and for a missing field
\* alike.
SendAlertOptions(sources, severities) ==
  [title          : Titles,
   message        : Messages,
   source         : Optional(sources),
   severity       : Optional(severities),
   details        : {Undefined},
   bypassCooldown : BOOLEAN]

\* The sequential caller leaves source unset and tries every severity; the
\* concurrent caller leaves severity unset and tries two sources.
SequentialOptions == SendAlertOptions({}, AlertSeverity)
ConcurrentOptions == SendAlertOptions(Sources, {})

\* const result: AlertResult = { sent: false, channels: [] }
EmptyResult ==
  [sent |-> FALSE, channels |-> <<>>, alertId |-> Undefined, error |-> Undefined]

\* A slot no send() call has used yet.
IdleSend ==
  [pc        |-> "idle",     \* "idle" | "await" (suspended at the await) | "done"
   opts      |-> [title |-> "c", message |-> "m", source |-> Undefined,
                  severity |-> Undefined, details |-> Undefined,
                  bypassCooldown |-> FALSE],
   alertType |-> "",         \* the cooldown key
   alert     |-> Undefined,  \* the Alert, once constructed
   result    |-> EmptyResult,
   idx       |-> 0,          \* index in config.channels of the awaited channel
   fetching  |-> FALSE,      \* whether the awaited sendToWebhook issued a fetch
   attempts  |-> <<>>,       \* history: <<channel, outcome>> per channel tried
   postN     |-> 0,          \* history: fetch() calls this send made
   logN      |-> 0,          \* history: log emissions this send made
   logCalls  |-> <<>>,       \* history: the sink calls of those emissions
   raised    |-> FALSE]      \* whether the promise rejected

\* ---------------------------------------------------------------- gates
shouldSendInverted(severity) ==
  indexOf(SEVERITY_ORDER, severity) <= indexOf(SEVERITY_ORDER, config.minSeverity)

shouldSend(severity) ==
  indexOf(SEVERITY_ORDER, severity) >= indexOf(SEVERITY_ORDER, config.minSeverity)

isInCooldownInclusive(alertType) ==
  LET present == alertType \in DOMAIN cooldownCache
  IN IF ~present \/ cooldownCache[alertType] = 0 THEN FALSE
     ELSE (clock - cooldownCache[alertType]) <= config.cooldownSeconds * MsPerSecond

isInCooldownInSeconds(alertType) ==
  LET present == alertType \in DOMAIN cooldownCache
  IN IF ~present \/ cooldownCache[alertType] = 0 THEN FALSE
     ELSE (clock - cooldownCache[alertType]) < config.cooldownSeconds

\* `if (!lastSent) return false`: a missing entry and a timestamp of 0 are
\* both falsy.
isInCooldown(alertType) ==
  LET present == alertType \in DOMAIN cooldownCache
  IN IF ~present \/ cooldownCache[alertType] = 0 THEN FALSE
     ELSE (clock - cooldownCache[alertType]) < config.cooldownSeconds * MsPerSecond

\* `this.cooldownCache.set(alertType, Date.now())`
updateCooldownClearing(alertType) == alertType :> clock

updateCooldown(alertType) == (alertType :> clock) @@ cooldownCache

\* `${options.source ?? 'unknown'}:${options.title}`
AlertTypeKeyTitleOnly(options) == options.title

AlertTypeKey(options) == Coalesce(options.source, "unknown") \o ":" \o options.title

generateAlertId(rnd) == "alert-" \o ToString(clock) \o "-" \o rnd

\* The Alert, without its timestamp (an ISO rendering of the clock that no
\* gate reads).
createAlert(options, rnd) ==
  [alertId  |-> generateAlertId(rnd),
   title    |-> options.title,
   message  |-> options.message,
   severity |-> Coalesce(options.severity, "warning"),
   source   |-> Coalesce(options.source, "unknown"),
   details  |-> Coalesce(options.details, <<>>)]

\* -------------------------------------------------------------- channels
\* A channel attempt ends "true" (returned true), "false" (returned false)
\* or "throw" (threw into the loop's try).  sendToLog calls the registered
\* handler, or console, and returns true; a handler that throws throws out
\* of it.
sendToLog(alert) == IF logHandler = "hThrows" THEN "throw" ELSE "true"

\* const logMessage = `[ALERT] ${alert.title} | ${alert.message} | ...`
logMessage(alert) ==
  "[ALERT] " \o alert.title \o " | " \o alert.message
    \o " | severity=" \o alert.severity \o " | source=" \o alert.source
    \o " | details=" \o JSONstringify(alert.details)

\* The default dispatch: `switch (alert.severity)`, without a default case.
consoleCalls(alert) ==
  IF alert.severity = "info"
  THEN << [sink |-> "console.info", args |-> <<logMessage(alert)>>] >>
  ELSE IF alert.severity = "warning"
  THEN << [sink |-> "console.warn", args |-> <<logMessage(alert)>>] >>
  ELSE IF alert.severity \in {"error", "critical"}
  THEN << [sink |-> "console.error", args |-> <<logMessage(alert)>>] >>
  ELSE <<>>

handlerCall(alert) ==
  [sink |-> logHandler, args |-> <<logMessage(alert), alert.severity>>]

\* The calls sendToLog makes: `if (this.logHandler) { this.logHandler(...) }
\* else { switch ... }`.
logDispatchChained(alert) ==
  IF logHandler # "null" THEN <<handlerCall(alert)>> \o consoleCalls(alert)
  ELSE consoleCalls(alert)

logDispatch(alert) ==
  IF logHandler # "null" THEN <<handlerCall(alert)>> ELSE consoleCalls(alert)

\* sendToWebhook up to its await: `if (!this.config.webhookUrl) return false`,
\* else the fetch is issued.
webhookFetches == config.webhookUrl # ""

\* sendToWebhook from its await on: a response that is not ok throws inside
\* the try, and the catch turns that and a rejected fetch into `false`.
sendToWebhookSettle(fetching, outcome) ==
  IF fetching /\ outcome = "ok" THEN "true" ELSE "false"

\* `if (sent) { result.channels.push(channel); result.sent = true; }`
recordSentAlways(st, channel, sent) ==
  [st EXCEPT !.result.sent = TRUE,
             !.result.channels = IF sent = "true" THEN Append(@, channel) ELSE @]

recordSent(st, channel, sent) ==
  IF sent = "true"
  THEN [st EXCEPT !.result.channels = Append(@, channel), !.result.sent = TRUE]
  ELSE st

RECURSIVE RunChannels(_, _)

\* The try inside the for loop: `catch (error) { result.error = String(error) }`,
\* then the next channel.
catchAroundLoop(i, st) ==
  [st EXCEPT !.result.error = Some("Error: log handler failed"),
             !.pc = "done", !.idx = 0]

catchMissing(i, st) == [st EXCEPT !.pc = "done", !.idx = 0, !.raised = TRUE]

catchInLoop(i, st) ==
  RunChannels(i + 1, [st EXCEPT !.result.error = Some("Error: log handler failed")])

\* What one finished channel attempt does to the send, and on to the next.
afterAttempt(i, st, channel, outcome) ==
  LET st1 == [st EXCEPT !.attempts = Append(@, <<channel, outcome>>)]
  IN IF outcome = "throw" THEN catchInLoop(i, st1)
     ELSE RunChannels(i + 1, recordSent(st1, channel, outcome))

\* `for (const channel of this.config.channels)` from index i, up to the next
\* await or to the end of the loop.
RunChannels(i, st) ==
  IF i > Len(config.channels) THEN [st EXCEPT !.pc = "done", !.idx = 0]
  ELSE LET channel == config.channels[i]
       IN IF channel = "log"
          THEN afterAttempt(i, [st EXCEPT !.logN = @ + 1,
                                          !.logCalls = @ \o logDispatch(Get(st.alert))],
                            channel, sendToLog(st.alert))
          ELSE IF channel = "webhook"
          THEN [st EXCEPT !.pc = "await", !.idx = i,
                          !.fetching = webhookFetches,
                          !.postN = IF webhookFetches THEN @ + 1 ELSE @]
          ELSE afterAttempt(i, st, channel, "false")

\* `if (result.sent) { this.updateCooldown(alertType); }`
cooldownOnReturnAlways(st) == updateCooldown(st.alertType)

cooldownOnReturnUnlessBypass(st) ==
  IF st.result.sent /\ ~st.opts.bypassCooldown
  THEN updateCooldown(st.alertType) ELSE cooldownCache

cooldownOnReturn(st) ==
  IF st.result.sent THEN updateCooldown(st.alertType) ELSE cooldownCache

\* Passed both gates: the Alert was constructed.
PassedGates(st) == st.alert # Undefined

\* `const alert = this.createAlert(options); result.alertId = alert.alertId;`
passGatesWithoutId(base, alert) == [base EXCEPT !.alert = Some(alert)]

passGates(base, alert) ==
  [base EXCEPT !.alert = Some(alert), !.result.alertId = Some(alert.alertId)]

\* The (source, title) pair of a call, source defaulted.
PairOf(options) == <<Coalesce(options.source, "unknown"), options.title>>

\* The send returned at the cooldown gate: it passed the severity gate and
\* constructed no Alert.
DroppedByCooldown(st) ==
  /\ ~PassedGates(st)
  /\ shouldSend(Coalesce(st.opts.severity, "warning"))

\* The cooldown table once the send has run to st: only a send that reaches
\* the end of send() (past both early returns) gets to the write.
cooldownAfterRefreshing(st) ==
  IF st.pc = "done" /\ ~st.raised
  THEN IF PassedGates(st) THEN cooldownOnReturn(st)
       ELSE IF DroppedByCooldown(st) THEN updateCooldown(st.alertType)
       ELSE cooldownCache
  ELSE cooldownCache

cooldownAfter(st) ==
  IF st.pc = "done" /\ PassedGates(st) /\ ~st.raised
  THEN cooldownOnReturn(st) ELSE cooldownCache

\* The state after slot p's send has run to st in this step: suspended in its
\* slot, or returned and the slot free again.
Commit(p, st) ==
  /\ sends' = [sends EXCEPT ![p] = IF st.pc = "done" THEN IdleSend ELSE st]
  /\ returned' = IF st.pc = "done" THEN st ELSE IdleSend
  /\ cooldownCache' = cooldownAfter(st)
  /\ lastSuccess' = IF st.pc = "done" /\ ~st.raised /\ st.result.sent
                    THEN (st.alertType :> clock) @@ lastSuccess ELSE lastSuccess
  /\ lastSuccessOfPair' = IF st.pc = "done" /\ ~st.raised /\ st.result.sent
                          THEN (PairOf(st.opts) :> clock) @@ lastSuccessOfPair
                          ELSE lastSuccessOfPair

\* `const severity = options.severity ?? 'warning';
\*  if (!this.shouldSend(severity)) return result;`: the first gate.
belowThresholdUnlessBypass(options) ==
  ~options.bypassCooldown /\ ~shouldSend(Coalesce(options.severity, "warning"))

belowThreshold(options) == ~shouldSend(Coalesce(options.severity, "warning"))

\* ---------------------------------------------------------------- actions
\* send(options), from the call to its first await or to its return.
Call(p, options, rnd) ==
  /\ sends[p].pc = "idle"
  /\ \A q \in Slots : q < p => sends[q].pc # "idle"
  /\ LET severity == Coalesce(options.severity, "warning")
         alertType == AlertTypeKey(options)
         base == [IdleSend EXCEPT !.opts = options, !.alertType = alertType]
         alert == createAlert(options, rnd)
     IN Commit(p,
          IF belowThreshold(options) THEN [base EXCEPT !.pc = "done"]
          ELSE IF ~options.bypassCooldown /\ isInCooldown(alertType)
          THEN [base EXCEPT !.pc = "done"]
          ELSE RunChannels(1, passGates(base, alert)))
  /\ UNCHANGED <<config, logHandler, clock, callerChannels>>

\* send() resumed when the awaited sendToWebhook settles, up to the next
\* await or to the return.
ResumeWebhook(p, outcome) ==
  /\ sends[p].pc = "await"
  \* without a fetch there is no response: the promise settles one way
  /\ (sends[p].fetching \/ outcome = "ok")
  /\ Commit(p, afterAttempt(sends[p].idx, sends[p], "webhook",
                            sendToWebhookSettle(sends[p].fetching, outcome)))
  /\ UNCHANGED <<config, logHandler, clock, callerChannels>>

\* setLogHandler(handler)
SetLogHandler(h) ==
  /\ logHandler # h
  /\ logHandler' = h
  /\ returned' = IdleSend
  /\ UNCHANGED <<config, cooldownCache, clock, sends, lastSuccess,
                 lastSuccessOfPair, callerChannels>>

\* Time passes: Date.now() is non-decreasing.
Tick ==
  /\ clock < TickMs * (MaxTicks + 1)
  /\ clock' = clock + TickMs
  /\ returned' = IdleSend
  /\ UNCHANGED <<config, cooldownCache, logHandler, sends, lastSuccess,
                 lastSuccessOfPair, callerChannels>>

\* A dispatcher just constructed.  Date.now() counts ms since 1970: it is
\* positive.
Init ==
  /\ config \in {AlertManager(c) : c \in CallerConfigs}
  /\ cooldownCache = <<>>
  /\ logHandler = "null"
  /\ clock = TickMs
  /\ sends = [p \in Slots |-> IdleSend]
  /\ returned = IdleSend
  /\ lastSuccess = <<>>
  /\ lastSuccessOfPair = <<>>
  /\ callerChannels = Undefined

\* No send() is suspended: the caller awaited every call it made.
NoneInFlight == \A q \in Slots : sends[q].pc = "idle"

Next ==
  \/ \E p \in Slots, o \in SequentialOptions, r \in RandomSuffixes :
        NoneInFlight /\ Call(p, o, r)
  \/ \E p \in Slots, f \in FetchOutcomes : ResumeWebhook(p, f)
  \/ \E h \in LogHandlers : SetLogHandler(h)
  \/ Tick

Spec == Init /\ [][Next]_vars

NextConcurrent ==
  \/ \E p \in Slots, o \in ConcurrentOptions, r \in RandomSuffixes : Call(p, o, r)
  \/ \E p \in Slots, f \in FetchOutcomes : ResumeWebhook(p, f)
  \/ \E h \in LogHandlers : SetLogHandler(h)
  \/ Tick

\* The concurrent caller's dispatchers keep the default minSeverity, which
\* its sends (severity unset, so 'warning') all pass.
InitConcurrent == Init /\ config.minSeverity = "warning"

SpecConcurrent == InitConcurrent /\ [][NextConcurrent]_vars

\* A caller that awaits each send() and sends one title from two sources.
NextSources ==
  \/ \E p \in Slots, o \in ConcurrentOptions, r \in RandomSuffixes :
        NoneInFlight /\ Call(p, o, r)
  \/ \E p \in Slots, f \in FetchOutcomes : ResumeWebhook(p, f)
  \/ \E h \in LogHandlers : SetLogHandler(h)
  \/ Tick

SpecSources == InitConcurrent /\ [][NextSources]_vars

\* A caller that passes a minSeverity outside AlertSeverity (JavaScript, or
\* TypeScript through a cast): the constructor takes it as it is.
MalformedSeverities == {"verbose"}

MalformedConfigs ==
  [minSeverity     : {Some(v) : v \in MalformedSeverities},
   webhookUrl      : Optional(WebhookUrls),
   webhookEnabled  : Optional(BOOLEAN),
   webhookType     : {Undefined},
   cooldownSeconds : Optional(0..MaxCooldownSeconds),
   channels        : Optional(ChannelArrays)]

InitMalformed ==
  /\ config \in {AlertManager(c) : c \in MalformedConfigs}
  /\ cooldownCache = <<>>
  /\ logHandler = "null"
  /\ clock = TickMs
  /\ sends = [p \in Slots |-> IdleSend]
  /\ returned = IdleSend
  /\ lastSuccess = <<>>
  /\ lastSuccessOfPair = <<>>
  /\ callerChannels = Undefined

SpecMalformed == InitMalformed /\ [][Next]_vars

\* ------------------------------------------------- convenience methods
\* A string the code cuts by position is the sequence of its characters;
\* Join gives its text.
RECURSIVE Join(_)
Join(chars) == IF chars = <<>> THEN "" ELSE Head(chars) \o Join(Tail(chars))

\* String.prototype.substring(start, end) for 0 <= start <= end
substringWhole(chars, start, end) == chars

substring(chars, start, end) ==
  SubSeq(chars, start + 1, IF end < Len(chars) THEN end ELSE Len(chars))

\* A number with two decimals is the integer of its hundredths.
Digit(n) == ToString(n % 10)

\* String(n) of a non-negative number: no trailing zeros after the point.
NumberText(h) ==
  IF h % Hundred = 0 THEN ToString(h \div Hundred)
  ELSE IF h % 10 = 0 THEN ToString(h \div Hundred) \o "." \o Digit(h \div 10)
  ELSE ToString(h \div Hundred) \o "." \o Digit(h \div 10) \o Digit(h)

\* n.toFixed(2)
toFixed2(h) == ToString(h \div Hundred) \o "." \o Digit(h \div 10) \o Digit(h)

\* alertSecurityIncident(incidentType, description, details): the options it
\* passes to send().
alertSecurityIncident(incidentType, description, details) ==
  [title          |-> "Incidente de Segurança: " \o incidentType,
   message        |-> description,
   severity       |-> Some("critical"),
   source         |-> Some("security"),
   details        |-> Some(Spread(<< <<"incident_type", Str(incidentType)>> >>,
                                  Coalesce(details, <<>>))),
   bypassCooldown |-> TRUE]

\* riskScore >= 0.8 ? 'critical' : riskScore >= 0.5 ? 'error' : 'warning'
injectionSeverityExclusive(riskScore) ==
  IF riskScore > CriticalRisk THEN "critical"
  ELSE IF riskScore > ErrorRisk THEN "error" ELSE "warning"

injectionSeverity(riskScore) ==
  IF riskScore >= CriticalRisk THEN "critical"
  ELSE IF riskScore >= ErrorRisk THEN "error" ELSE "warning"

\* alertInjectionDetected(injectionType, riskScore, action, details)
alertInjectionDetected(injectionType, riskScore, action, details) ==
  [title          |-> "Prompt Injection Detectado",
   message        |-> "Tentativa de injection tipo '" \o injectionType
                        \o "' com score " \o toFixed2(riskScore)
                        \o ". Ação: " \o action,
   severity       |-> Some(injectionSeverity(riskScore)),
   source         |-> Some("prompt_injection_detector"),
   details        |-> Some(Spread(<< <<"injection_type", Str(injectionType)>>,
                                     <<"risk_score", Num(NumberText(riskScore))>>,
                                     <<"action", Str(action)>> >>,
                                  Coalesce(details, <<>>))),
   bypassCooldown |-> FALSE]

\* alertRateLimitExceeded(apiKey, limit, current, details)
alertRateLimitExceeded(apiKey, limit, current, details) ==
  [title          |-> "Rate Limit Excedido",
   message        |-> "API key " \o Join(substring(apiKey, 0, KeyPrefixLength))
                        \o "... excedeu limite (" \o ToString(current) \o "/"
                        \o ToString(limit) \o ").",
   severity       |-> Some("warning"),
   source         |-> Some("rate_limiter"),
   details        |-> Some(Spread(<< <<"api_key_prefix",
                                       Str(Join(substring(apiKey, 0, KeyPrefixLength)))>>,
                                     <<"limit", Num(ToString(limit))>>,
                                     <<"current", Num(ToString(current))>> >>,
                                  Coalesce(details, <<>>))),
   bypassCooldown |-> FALSE]

\* statusCode && statusCode >= 500 ? 'error' : 'warning': a missing status
\* code and 0 are falsy.
apiErrorSeverityMissingIsError(statusCode) ==
  IF statusCode = Undefined \/ Get(statusCode) >= ServerErrorStatus
  THEN "error" ELSE "warning"

apiErrorSeverity(statusCode) ==
  IF statusCode # Undefined /\ Get(statusCode) # 0 /\ Get(statusCode) >= ServerErrorStatus
  THEN "error" ELSE "warning"

\* alertApiError(endpoint, errorMessage, statusCode, details)
alertApiError(endpoint, errorMessage, statusCode, details) ==
  [title          |-> "Erro na API",
   message        |-> "Endpoint " \o endpoint \o " retornou erro: " \o errorMessage,
   severity       |-> Some(apiErrorSeverity(statusCode)),
   source         |-> Some("api"),
   details        |-> Some(Spread(<< <<"endpoint", Str(endpoint)>>,
                                     <<"error_message", Str(errorMessage)>>,
                                     <<"status_code",
                                       IF statusCode = Undefined THEN Undef
                                       ELSE Num(ToString(Get(statusCode)))>> >>,
                                  Coalesce(details, <<>>))),
   bypassCooldown |-> FALSE]

\* What the callers of the convenience methods pass.
Endpoints == {"/search"}
ErrorMessages == {"timeout"}
StatusCodes ==
  Optional({0, 404, ServerErrorStatus - 1, ServerErrorStatus, ServerErrorStatus + 3})
IncidentTypes == {"brute_force"}
Descriptions == {"d"}
InjectionTypes == {"jailbreak"}
Actions == {"blocked"}

\* Risk scores, in hundredths: both thresholds, their neighbours, the ends.
RiskScores ==
  {0, 30, ErrorRisk - 1, ErrorRisk, 60, CriticalRisk - 1, CriticalRisk, 95, Hundred}

\* API keys: nine fixed characters, then up to two that vary, so that some
\* keys are shorter than the prefix kept and some differ only beyond it.
KeyHead == <<"v", "g", "_", "a", "b", "c", "d", "e", "f">>
KeyTails == UNION {[1..n -> {"x", "y"}] : n \in 0..(KeyPrefixLength + 1 - Len(KeyHead))}
ApiKeys == {KeyHead \o t : t \in KeyTails}
Limits == {100}
Currents == {150}
CallerDetails == Optional({ << <<"tenant", Str("t1")>> >> })

AlertSecurityIncident(p, incidentType, description, rnd) ==
  Call(p, alertSecurityIncident(incidentType, description, Undefined), rnd)

AlertInjectionDetected(p, injectionType, riskScore, action, rnd) ==
  Call(p, alertInjectionDetected(injectionType, riskScore, action, Undefined), rnd)

AlertRateLimitExceeded(p, apiKey, limit, current, details, rnd) ==
  Call(p, alertRateLimitExceeded(apiKey, limit, current, details), rnd)

AlertApiError(p, endpoint, errorMessage, statusCode, rnd) ==
  Call(p, alertApiError(endpoint, errorMessage, statusCode, Undefined), rnd)

\* The dispatchers the convenience methods are called on: default channels,
\* webhook enabled, a cooldown of MaxCooldownSeconds.
ConvenienceConfigs ==
  {c \in CallerConfigs : /\ c.channels = Undefined
                          /\ c.webhookEnabled = Some(TRUE)
                          /\ c.cooldownSeconds = Some(MaxCooldownSeconds)
                          /\ c.minSeverity = Undefined}

InitConvenience == Init /\ config \in {AlertManager(c) : c \in ConvenienceConfigs}

NextConvenience ==
  \/ \E p \in Slots, t \in IncidentTypes, d \in Descriptions, r \in RandomSuffixes :
        NoneInFlight /\ AlertSecurityIncident(p, t, d, r)
  \/ \E p \in Slots, f \in FetchOutcomes : ResumeWebhook(p, f)
  \/ \E h \in LogHandlers : SetLogHandler(h)
  \/ Tick

SpecConvenience == InitConvenience /\ [][NextConvenience]_vars

\* The convenience methods whose options depend on their arguments, called
\* one after the other on a dispatcher just constructed.
NextWrappers ==
  \/ \E p \in Slots, t \in InjectionTypes, s \in RiskScores, a \in Actions,
         r \in RandomSuffixes :
        NoneInFlight /\ AlertInjectionDetected(p, t, s, a, r)
  \/ \E p \in Slots, k \in ApiKeys, l \in Limits, c \in Currents,
         d \in CallerDetails, r \in RandomSuffixes :
        NoneInFlight /\ AlertRateLimitExceeded(p, k, l, c, d, r)
  \/ \E p \in Slots, e \in Endpoints, m \in ErrorMessages, c \in StatusCodes,
         r \in RandomSuffixes :
        NoneInFlight /\ AlertApiError(p, e, m, c, r)
  \/ \E p \in Slots, f \in FetchOutcomes : ResumeWebhook(p, f)

SpecWrappers == InitConvenience /\ [][NextWrappers]_vars

\* ------------------------------------------------------ webhook payloads
\* The texts the formatters cut and recase are sequences of characters;
\* Chars gives the characters of a string in use (it inverts Join).
LongText == [i \in 1..(FieldValueLength + 1) |-> IF i > FieldValueLength THEN "z" ELSE "x"]

Spellings ==
  { <<"i", "n", "f", "o">>, <<"w", "a", "r", "n", "i", "n", "g">>,
    <<"e", "r", "r", "o", "r">>, <<"c", "r", "i", "t", "i", "c", "a", "l">>,
    <<"p", "i", "i", "_", "t", "y", "p", "e", "s">>,
    <<"a", "c", "t", "i", "o", "n">>,
    <<"c", "p", "f", ",", " ", "e", "m", "a", "i", "l">>,
    <<"m", "a", "s", "k", "e", "d">>,
    <<"_", "r", "e", "t", "r", "y", "_", "_", "c", "o", "u", "n", "t", "2">>,
    <<"3">>, <<"n", "o", "t", "e">>, <<"c", "ó", "d", "i", "g", "o">>, LongText }

SpellingOf == [s \in {Join(cs) : cs \in Spellings} |->
                 CHOOSE cs \in Spellings : Join(cs) = s]

Chars(s) == SpellingOf[s]

\* String.prototype.toUpperCase on ASCII text
UpperOf ==
  [a |-> "A", b |-> "B", c |-> "C", d |-> "D", e |-> "E", f |-> "F", g |-> "G",
   h |-> "H", i |-> "I", j |-> "J", k |-> "K", l |-> "L", m |-> "M", n |-> "N",
   o |-> "O", p |-> "P", q |-> "Q", r |-> "R", s |-> "S", t |-> "T", u |-> "U",
   v |-> "V", w |-> "W", x |-> "X", y |-> "Y", z |-> "Z"]

\* ... and on the accented letters in use
UpperOfAccented == [c \in {"ó"} |-> "Ó"]

toUpperCaseChar(c) ==
  IF c \in DOMAIN UpperOf THEN UpperOf[c]
  ELSE IF c \in DOMAIN UpperOfAccented THEN UpperOfAccented[c]
  ELSE c

toUpperCase(chars) == [i \in 1..Len(chars) |-> toUpperCaseChar(chars[i])]

\* \w of a regular expression: [A-Za-z0-9_]
IsWordChar(c) ==
  \/ c \in DOMAIN UpperOf
  \/ \E l \in DOMAIN UpperOf : UpperOf[l] = c
  \/ c \in {"0", "1", "2", "3", "4", "5", "6", "7", "8", "9", "_"}

\* key.replace(/_/g, ' ')
underscoresToSpaces(chars) ==
  [i \in 1..Len(chars) |-> IF chars[i] = "_" THEN " " ELSE chars[i]]

\* .replace(/\b\w/g, (c) => c.toUpperCase()): a word character that no word
\* character precedes.
capitalizeWords(chars) ==
  [i \in 1..Len(chars) |->
     IF IsWordChar(chars[i]) /\ (i = 1 \/ ~IsWordChar(chars[i - 1]))
     THEN toUpperCaseChar(chars[i]) ELSE chars[i]]

fieldTitle(key) == Join(capitalizeWords(underscoresToSpaces(Chars(key))))

\* String(value)
StringOf(v) == IF v = Undef THEN "undefined" ELSE v[2]

\* String(value).substring(0, 100)
fieldValue(v) == Join(substring(Chars(StringOf(v)), 0, FieldValueLength))

SLACK_COLORS ==
  [info |-> "#36a64f", warning |-> "#ff9800", error |-> "#f44336",
   critical |-> "#9c27b0"]

SLACK_EMOJIS ==
  [info |-> ":information_source:", warning |-> ":warning:", error |-> ":x:",
   critical |-> ":rotating_light:"]

\* A hexadecimal literal 0x...: its digits, most significant first.
HexDigits ==
  <<"0", "1", "2", "3", "4", "5", "6", "7", "8", "9", "a", "b", "c", "d", "e", "f">>

RECURSIVE HexValueOctal(_)
HexValueOctal(digits) ==
  IF digits = <<>> THEN 0
  ELSE HexValueOctal(SubSeq(digits, 1, Len(digits) - 1)) * 8
         + indexOf(HexDigits, digits[Len(digits)])

RECURSIVE HexValue(_)
HexValue(digits) ==
  IF digits = <<>> THEN 0
  ELSE HexValue(SubSeq(digits, 1, Len(digits) - 1)) * Len(HexDigits)
         + indexOf(HexDigits, digits[Len(digits)])

DISCORD_COLORS ==
  [info     |-> HexValue(<<"3", "6", "a", "6", "4", "f">>),
   warning  |-> HexValue(<<"f", "f", "9", "8", "0", "0">>),
   error    |-> HexValue(<<"f", "4", "4", "3", "3", "6">>),
   critical |-> HexValue(<<"9", "c", "2", "7", "b", "0">>)]

\* toSlackFormat(alert), without ts (the Alert's timestamp in seconds).
toSlackFormat(alert) ==
  LET fields ==
        << [title |-> "Severidade", value |-> Join(toUpperCase(Chars(alert.severity))),
            short |-> TRUE],
           [title |-> "Fonte", value |-> alert.source, short |-> TRUE] >>
        \o [i \in 1..Len(alert.details) |->
              [title |-> fieldTitle(alert.details[i][1]),
               value |-> fieldValue(alert.details[i][2]),
               short |-> TRUE]]
  IN [attachments |->
        << [color  |-> SLACK_COLORS[alert.severity],
            title  |-> SLACK_EMOJIS[alert.severity] \o " " \o alert.title,
            text   |-> alert.message,
            fields |-> fields,
            footer |-> "VectorGov Security"] >>]

\* toDiscordFormat(alert), without timestamp (the Alert's).
toDiscordFormat(alert) ==
  LET fields ==
        << [name |-> "Severidade", value |-> Join(toUpperCase(Chars(alert.severity))),
            inline |-> TRUE],
           [name |-> "Fonte", value |-> alert.source, inline |-> TRUE] >>
        \o [i \in 1..Len(alert.details) |->
              [name |-> fieldTitle(alert.details[i][1]),
               value |-> fieldValue(alert.details[i][2]),
               inline |-> TRUE]]
  IN [embeds |->
        << [title       |-> alert.title,
            description |-> alert.message,
            color       |-> DISCORD_COLORS[alert.severity],
            fields      |-> fields,
            footer      |-> [text |-> "VectorGov Security"]] >>]

\* The payload sendToWebhook posts: `switch (this.config.webhookType)`.
webhookPayload(alert) ==
  IF config.webhookType = "slack" THEN toSlackFormat(alert)
  ELSE IF config.webhookType = "discord" THEN toDiscordFormat(alert)
  ELSE alert

\* The body of the POST the suspended send st has in flight: sendToWebhook
\* built it from the Alert and config.webhookType, which do not change while
\* the send is suspended.
PostedPayload(st) == webhookPayload(Get(st.alert))

\* Dispatchers that post every alert, in each of the three formats.
PayloadConfigs ==
  [minSeverity     : {Some("info")},
   webhookUrl      : {Some(u) : u \in WebhookUrls \ {""}},
   webhookEnabled  : {Some(TRUE)},
   webhookType     : Optional(WebhookType),
   cooldownSeconds : {Some(MaxCooldownSeconds)},
   channels        : {Undefined}]

\* Details a caller may pass: the two entries of the PII alert; a key with
\* leading and doubled underscores and a digit, and a value one character
\* longer than a field may hold; a key with an accented letter.
PayloadDetails ==
  Optional({ << <<"pii_types", Str("cpf, email")>>, <<"action", Str("masked")>> >>,
             << <<"_retry__count2", Num("3")>>, <<"note", Str(Join(LongText))>> >>,
             << <<"código", Num("3")>> >> })

PayloadOptions ==
  [title          : Titles,
   message        : Messages,
   source         : {Undefined},
   severity       : Optional(AlertSeverity),
   details        : PayloadDetails,
   bypassCooldown : BOOLEAN]

InitPayload ==
  /\ config \in {AlertManager(c) : c \in PayloadConfigs}
  /\ cooldownCache = <<>>
  /\ logHandler = "null"
  /\ clock = TickMs
  /\ sends = [p \in Slots |-> IdleSend]
  /\ returned = IdleSend
  /\ lastSuccess = <<>>
  /\ lastSuccessOfPair = <<>>
  /\ callerChannels = Undefined

NextPayload ==
  \/ \E p \in Slots, o \in PayloadOptions, r \in RandomSuffixes :
        NoneInFlight /\ Call(p, o, r)
  \/ \E p \in Slots, f \in FetchOutcomes : ResumeWebhook(p, f)

SpecPayload == InitPayload /\ [][NextPayload]_vars

\* ------------------------------------------------- sources with a colon
\* A caller whose sources and titles hold the separator of the cooldown
\* key: two sources and two titles, four (source, title) pairs.
PairSources == {"a:b", "a"}
PairTitles == {"c", "b:c"}

PairOptions ==
  [title          : PairTitles,
   message        : Messages,
   source         : {Some(src) : src \in PairSources},
   severity       : {Undefined},
   details        : {Undefined},
   bypassCooldown : BOOLEAN]

\* A dispatcher with the log channel alone and an explicit cooldown.
PairConfigs ==
  [minSeverity     : {Undefined},
   webhookUrl      : {Undefined},
   webhookEnabled  : {Undefined},
   webhookType     : {Undefined},
   cooldownSeconds : {Some(MaxCooldownSeconds)},
   channels        : {Undefined}]

InitPairs == Init /\ config \in {AlertManager(c) : c \in PairConfigs}

NextPairs ==
  \/ \E p \in Slots, o \in PairOptions, r \in RandomSuffixes :
        NoneInFlight /\ Call(p, o, r)
  \/ Tick

SpecPairs == InitPairs /\ [][NextPairs]_vars

\* ------------------------------------------------- interleaved senders
\* A dispatcher with the log and the webhook channel, whose sends are
\* suspended at the POST, under a caller that starts sends of two sources
\* while others are suspended.
InterleavedConfigs ==
  [minSeverity     : {Undefined},
   webhookUrl      : {Some(u) : u \in WebhookUrls \ {""}},
   webhookEnabled  : {Some(TRUE)},
   webhookType     : {Undefined},
   cooldownSeconds : {Some(MaxCooldownSeconds)},
   channels        : {Undefined}]

InitInterleaved == Init /\ config \in {AlertManager(c) : c \in InterleavedConfigs}

NextInterleaved ==
  \/ \E p \in Slots, o \in ConcurrentOptions, r \in RandomSuffixes : Call(p, o, r)
  \/ \E p \in Slots, f \in FetchOutcomes : ResumeWebhook(p, f)
  \/ Tick

SpecInterleaved == InitInterleaved /\ [][NextInterleaved]_vars

\* ------------------------------------------- a caller's channels array
\* `channels: config.channels ?? ['log']` stores the caller's array itself,
\* not a copy, and `this.config.channels.push('webhook')` appends to it: the
\* caller's array after the constructor has run is this.config.channels.
channelsAfterConstructor(c) == AlertManager(c).channels

\* What a caller who keeps one channels array passes beside it.
ConstructSettings ==
  [minSeverity     : {Undefined},
   webhookUrl      : Optional(WebhookUrls),
   webhookEnabled  : Optional(BOOLEAN),
   webhookType     : {Undefined},
   cooldownSeconds : {Some(MaxCooldownSeconds)},
   channels        : {Undefined}]

\* { ...settings, channels: array }
WithChannels(c, array) == [c EXCEPT !.channels = Some(array)]

\* The caller wrote an array and constructed a first dispatcher with it.
InitConstruct ==
  /\ \E c \in ConstructSettings, array \in ChannelArrays :
        /\ config = AlertManager(WithChannels(c, array))
        /\ callerChannels =
             [written |-> array,
              now     |-> channelsAfterConstructor(WithChannels(c, array))]
  /\ cooldownCache = <<>>
  /\ logHandler = "null"
  /\ clock = TickMs
  /\ sends = [p \in Slots |-> IdleSend]
  /\ returned = IdleSend
  /\ lastSuccess = <<>>
  /\ lastSuccessOfPair = <<>>

\* new AlertManager({ ...c, channels: array }) with the array the caller
\* keeps: a further dispatcher, with a cooldown table and a handler of its
\* own, which the model follows from here on.
Construct(c) ==
  /\ NoneInFlight
  /\ LET c2 == WithChannels(c, callerChannels.now)
     IN /\ config' = AlertManager(c2)
        /\ callerChannels' = [callerChannels EXCEPT !.now = channelsAfterConstructor(c2)]
  /\ cooldownCache' = <<>>
  /\ logHandler' = "null"
  /\ sends' = [p \in Slots |-> IdleSend]
  /\ returned' = IdleSend
  /\ lastSuccess' = <<>>
  /\ lastSuccessOfPair' = <<>>
  /\ UNCHANGED clock

NextConstruct ==
  \/ \E c \in ConstructSettings : Construct(c)
  \/ \E p \in Slots, o \in ConcurrentOptions, r \in RandomSuffixes :
        NoneInFlight /\ Call(p, o, r)
  \/ \E p \in Slots, f \in FetchOutcomes : ResumeWebhook(p, f)

SpecConstruct == InitConstruct /\ [][NextConstruct]_vars

\* ================================================================ claims
\* The spec's total order info < warning < error < critical.
SeverityRank == [info |-> 0, warning |-> 1, error |-> 2, critical |-> 3]

\* The severity a call resolves to (default warning).
ResolvedSeverity(st) == Coalesce(st.opts.severity, "warning")

BelowMinSeverity(st) ==
  SeverityRank[ResolvedSeverity(st)] < SeverityRank[config.minSeverity]

CooldownMs == config.cooldownSeconds * MsPerSecond

\* The send() calls the next state holds: the one that returned, the suspended.
RecordsNext == {returned'} \cup {sends'[p] : p \in Slots}

\* st is the call that starts in this step: it returns at once (no slot
\* changes) or it is suspended in a slot that was free.
StartedNow(st) ==
  \/ /\ returned'.pc = "done" /\ sends' = sends /\ st = returned'
  \/ \E p \in Slots : sends[p].pc = "idle" /\ sends'[p].pc = "await" /\ st = sends'[p]

\* A successful send of st's key is on record, ms milliseconds ago.
LastSuccessAgo(st, ms) ==
  st.alertType \in DOMAIN lastSuccess /\ clock - lastSuccess[st.alertType] = ms

\* The channels of st's attempts, in order.
AttemptedChannels(st) == [i \in 1..Len(st.attempts) |-> st.attempts[i][1]]

SomeAttempt(st, outcomes) ==
  \E i \in 1..Len(st.attempts) : st.attempts[i][2] \in outcomes

\* C1: a send whose resolved severity ranks below config.minSeverity returns
\* {sent:false, channels:[]} without alertId in the step it is called, leaves
\* the cooldown table as it was and contacts neither the log sink nor the
\* webhook.
C1_SubThresholdIsNoOp ==
  [][\A st \in RecordsNext :
       (StartedNow(st) /\ BelowMinSeverity(st))
         => /\ st.pc = "done"
            /\ st.result = EmptyResult
            /\ cooldownCache' = cooldownCache
            /\ st.attempts = <<>> /\ st.logN = 0 /\ st.postN = 0]_vars

C1_Witness ==
  /\ returned.pc = "done"
  /\ BelowMinSeverity(returned)
  /\ returned.opts.bypassCooldown
  /\ cooldownCache # <<>>

\* C2: a send without bypassCooldown that passes the severity gate and starts
\* less than cooldownSeconds after the last successful send of its
\* (source, title) returns {sent:false, channels:[]}, whatever its severity.
C2_RepeatWithinCooldownSuppressed ==
  [][\A st \in RecordsNext :
       (/\ StartedNow(st)
        /\ ~BelowMinSeverity(st)
        /\ ~st.opts.bypassCooldown
        /\ st.alertType \in DOMAIN lastSuccess
        /\ clock - lastSuccess[st.alertType] < CooldownMs)
         => st.pc = "done" /\ st.result = EmptyResult]_vars

C2_Witness ==
  /\ returned.pc = "done"
  /\ returned.result = EmptyResult
  /\ config.minSeverity = "info"
  /\ returned.opts.severity = Some("critical")
  /\ ~returned.opts.bypassCooldown
  /\ LastSuccessAgo(returned, TickMs)
  /\ TickMs < CooldownMs

\* C3: once now - lastSend >= cooldownSeconds (boundary included), a repeat
\* send that passes the severity gate passes the cooldown gate: its Alert is
\* constructed.
C3_RepeatAfterCooldownPasses ==
  [][\A st \in RecordsNext :
       (/\ StartedNow(st)
        /\ ~BelowMinSeverity(st)
        /\ st.alertType \in DOMAIN lastSuccess
        /\ clock - lastSuccess[st.alertType] >= CooldownMs)
         => PassedGates(st) /\ st.result.alertId # Undefined]_vars

C3_Witness ==
  /\ returned.pc = "done"
  /\ PassedGates(returned)
  /\ ~returned.opts.bypassCooldown
  /\ ~returned.result.sent
  /\ CooldownMs > 0
  /\ LastSuccessAgo(returned, CooldownMs)

\* C4: two overlapping sends of one AlertType key, neither with
\* bypassCooldown, never both pass the cooldown gate (here: while the whole
\* behaviour lies within one cooldown window, so that exactly one should).
C4_OverlappingSendsNotBothPass ==
  \A p, q \in Slots :
    (/\ p # q
     /\ sends[p].pc = "await" /\ sends[q].pc = "await"
     /\ sends[p].alertType = sends[q].alertType
     /\ ~sends[p].opts.bypassCooldown /\ ~sends[q].opts.bypassCooldown
     /\ CooldownMs > TickMs * (MaxTicks + 1))
      => ~(PassedGates(sends[p]) /\ PassedGates(sends[q]))

\* C5: the cooldown table changes only in the step in which a send returns
\* with sent=true, and then only in that send's key; a send that returns with
\* sent=false leaves it unchanged, and a send of the same key that follows at
\* once is not suppressed.
C5_CooldownWrittenOnlyOnSent ==
  [][/\ cooldownCache' # cooldownCache
          => /\ returned'.pc = "done" /\ returned'.result.sent
             /\ \A k \in DOMAIN cooldownCache :
                  k # returned'.alertType => /\ k \in DOMAIN cooldownCache'
                                             /\ cooldownCache'[k] = cooldownCache[k]
     /\ (returned'.pc = "done" /\ ~returned'.result.sent)
          => cooldownCache' = cooldownCache
     /\ \A st \in RecordsNext :
          (/\ StartedNow(st)
           /\ returned.pc = "done" /\ PassedGates(returned)
           /\ ~returned.result.sent /\ ~returned.opts.bypassCooldown
           /\ st.alertType = returned.alertType
           /\ ~BelowMinSeverity(st))
            => PassedGates(st)]_vars

C5_Witness ==
  /\ returned.pc = "done"
  /\ PassedGates(returned)
  /\ ~returned.result.sent
  /\ Len(returned.attempts) = 2
  /\ returned.alertType \notin DOMAIN cooldownCache

\* C6: in every result send returns, sent is true exactly if channels is
\* non-empty, exactly if some channel attempt reported success.
C6_SentIffSomeChannel ==
  returned.pc = "done"
    => /\ returned.result.sent <=> returned.result.channels # <<>>
       /\ returned.result.sent <=> SomeAttempt(returned, {"true"})

C6_Witness ==
  /\ returned.pc = "done"
  /\ returned.result.sent
  /\ Len(returned.result.channels) = 1
  /\ SomeAttempt(returned, {"false"})

\* C7: a send that passed the gates attempts every channel of
\* config.channels, in order, whatever the earlier attempts did.
C7_EveryChannelAttempted ==
  /\ (returned.pc = "done" /\ PassedGates(returned))
       => AttemptedChannels(returned) = config.channels
  /\ \A p \in Slots :
       sends[p].pc = "await"
         => AttemptedChannels(sends[p]) = SubSeq(config.channels, 1, sends[p].idx - 1)

C7_Witness ==
  /\ returned.pc = "done"
  /\ returned.attempts = << <<"log", "throw">>, <<"webhook", "false">> >>
  /\ returned.fetching

\* C8: a send that passed the gates and in which some channel failed returns
\* a result whose error is set.
C8_FailureSetsError ==
  (returned.pc = "done" /\ SomeAttempt(returned, {"false", "throw"}))
    => returned.result.error # Undefined

\* C9: send never rejects: no send, returned or suspended, has raised.
C9_SendNeverRaises ==
  /\ ~returned.raised
  /\ \A p \in Slots : ~sends[p].raised

C9_Witness ==
  /\ returned.pc = "done"
  /\ ~returned.raised
  /\ SomeAttempt(returned, {"throw"})
  /\ returned.fetching
  /\ returned.attempts[Len(returned.attempts)] = <<"webhook", "false">>

\* C10: with webhookEnabled=true, webhookUrl="" and both log and webhook in
\* channels, a send that passed the gates returns sent=true with log and
\* without webhook in channels, having issued no fetch and raised nothing.
C10_EmptyUrlLogOnly ==
  (/\ returned.pc = "done" /\ PassedGates(returned)
   /\ config.webhookEnabled /\ config.webhookUrl = ""
   /\ includes(config.channels, "log") /\ includes(config.channels, "webhook"))
    => /\ returned.result.sent
       /\ includes(returned.result.channels, "log")
       /\ ~includes(returned.result.channels, "webhook")
       /\ returned.postN = 0
       /\ ~returned.raised

\* The send() call st was made by the convenience method of this source.
CalledBy(st, source) == st.pc # "idle" /\ st.opts.source = Some(source)

\* C11: every alertSecurityIncident call sends with severity critical and
\* bypassCooldown=true, and on a dispatcher with log in its channels it
\* returns sent=true, whatever the clock and the cooldown table hold.
C11_SecurityIncidentAlwaysSent ==
  (returned.pc = "done" /\ CalledBy(returned, "security"))
    => /\ returned.opts.severity = Some("critical")
       /\ returned.opts.bypassCooldown
       /\ includes(config.channels, "log") => returned.result.sent

\* The source a call resolves to (default unknown).
ResolvedSource(options) == Coalesce(options.source, "unknown")

\* C12: alerts of one title and different sources have different cooldown
\* keys, and a send is dropped by the cooldown gate only when a send of its
\* own key succeeded less than cooldownSeconds before: a success of
\* (s1, t) never drops a send of (s2, t).
C12_DifferentSourceNeverSuppresses ==
  /\ \A o1, o2 \in ConcurrentOptions :
       (o1.title = o2.title /\ ResolvedSource(o1) # ResolvedSource(o2))
         => AlertTypeKey(o1) # AlertTypeKey(o2)
  /\ (returned.pc = "done" /\ ~BelowMinSeverity(returned) /\ ~PassedGates(returned))
       => /\ returned.alertType \in DOMAIN lastSuccess
          /\ clock - lastSuccess[returned.alertType] < CooldownMs

C12_Witness ==
  /\ returned.pc = "done"
  /\ PassedGates(returned)
  /\ ~returned.opts.bypassCooldown
  /\ returned.opts.source = Some("a")
  /\ \E k \in DOMAIN lastSuccess :
       /\ k # returned.alertType
       /\ clock - lastSuccess[k] < CooldownMs
  /\ returned.alertType \notin DOMAIN lastSuccess

\* C13: the log channel always succeeds: a send that passed the gates on a
\* dispatcher with log in config.channels returns sent=true with log in
\* result.channels, with the console dispatch and with any registered
\* handler, a throwing one included.
C13_LogAlwaysSucceeds ==
  (returned.pc = "done" /\ PassedGates(returned) /\ includes(config.channels, "log"))
    => returned.result.sent /\ includes(returned.result.channels, "log")

\* How often x occurs in arr.
Count(arr, x) == Cardinality({i \in 1..Len(arr) : arr[i] = x})

\* The channels list the caller c passed, or the default.
CallerChannels(c) == Coalesce(c.channels, <<"log">>)

\* C14: config.channels contains webhook whenever webhookEnabled is true and
\* webhookUrl is non-empty, whatever list the caller passed, and contains it
\* at most once when the caller's list already included it.
C14_WebhookChannelImpliedOnce ==
  /\ (config.webhookEnabled /\ config.webhookUrl # "")
       => includes(config.channels, "webhook")
  /\ \A c \in CallerConfigs :
       (AlertManager(c) = config /\ includes(CallerChannels(c), "webhook"))
         => Count(config.channels, "webhook") <= 1

\* C15: a send that passed the gates on a dispatcher with webhook in
\* config.channels and a non-empty webhookUrl has issued exactly one POST
\* when it returns, whatever the POST's outcome; a filtered send has issued
\* none.
C15_ExactlyOnePost ==
  /\ (/\ returned.pc = "done" /\ PassedGates(returned)
      /\ includes(config.channels, "webhook") /\ config.webhookUrl # "")
       => returned.postN = 1
  /\ (returned.pc = "done" /\ ~PassedGates(returned)) => returned.postN = 0

\* C16: result.alertId is set exactly in the sends that passed both gates,
\* suspended or returned: it is set when every channel failed and sent is
\* false, and it is absent from every filtered send.
C16_AlertIdIffPassedGates ==
  /\ returned.pc = "done"
       => /\ returned.result.alertId # Undefined <=> PassedGates(returned)
          /\ PassedGates(returned)
               => returned.result.alertId = Some(Get(returned.alert).alertId)
          /\ BelowMinSeverity(returned) => returned.result.alertId = Undefined
          /\ (~BelowMinSeverity(returned) /\ returned.opts.bypassCooldown)
               => returned.result.alertId # Undefined
          /\ (~BelowMinSeverity(returned) /\ returned.result.alertId = Undefined)
               => /\ returned.alertType \in DOMAIN lastSuccess
                  /\ clock - lastSuccess[returned.alertType] < CooldownMs
  /\ \A p \in Slots :
       sends[p].pc = "await"
         => PassedGates(sends[p]) /\ sends[p].result.alertId # Undefined

C16_Witness ==
  /\ returned.pc = "done"
  /\ PassedGates(returned)
  /\ ~returned.result.sent
  /\ returned.attempts # <<>>
  /\ returned.result.alertId # Undefined

\* This step takes a send() call from old to new: the call starts (old is
\* the unused record) or the suspended call of a slot resumes.
SendStep(old, new) ==
  \/ old = IdleSend /\ StartedNow(new)
  \/ \E p \in Slots :
       /\ sends[p].pc = "await" /\ sends'[p] # sends[p]
       /\ old = sends[p]
       /\ new = IF sends'[p].pc = "await" THEN sends'[p] ELSE returned'

\* The sink calls the log deliveries of this step made.
LogCallsAdded(old, new) ==
  SubSeq(new.logCalls, Len(old.logCalls) + 1, Len(new.logCalls))

\* C17: while a handler h is registered (the last setLogHandler was
\* setLogHandler(h)), every log delivery makes exactly one call, to h, with
\* the formatted message and the alert's severity, and none to console or to
\* a handler registered before.
C17_OnlyLastHandlerCalled ==
  [][\A new \in RecordsNext, old \in {IdleSend} \cup {sends[p] : p \in Slots} :
       (SendStep(old, new) /\ logHandler \in LogHandlers)
         => LET added == LogCallsAdded(old, new)
            IN /\ Len(added) = new.logN - old.logN
               /\ \A i \in 1..Len(added) :
                    /\ added[i].sink = logHandler
                    /\ added[i].args = <<logMessage(Get(new.alert)),
                                         Get(new.alert).severity>>]_vars

C17_Witness ==
  /\ returned.pc = "done"
  /\ config.channels = <<"log">>
  /\ logHandler = "hThrows"
  /\ returned.logCalls =
       << [sink |-> "hThrows",
           args |-> <<"[ALERT] c | m | severity=critical | source=unknown | details={}",
                      "critical">>] >>
  /\ returned.alertType \in DOMAIN lastSuccess

\* C18: a configuration whose minSeverity is none of info, warning, error,
\* critical is rejected by the constructor: no dispatcher holds one, and no
\* send runs under one.
C18_MalformedConfigRejected ==
  returned.pc = "done" => config.minSeverity \in AlertSeverity

\* Two keys agree on their first n characters (as far as they have them).
AgreeOnPrefix(k1, k2, n) ==
  \A i \in 1..n : /\ (i <= Len(k1)) = (i <= Len(k2))
                  /\ i <= Len(k1) => k1[i] = k2[i]

\* The send() calls the state holds.
Records == {returned} \cup {sends[p] : p \in Slots}

\* C19: the message and details alertRateLimitExceeded passes on, and the
\* Alert made of them, depend on the API key only through its first 10
\* characters: whatever key a call was made with, any key that agrees with it
\* on the first 10 characters gives, with the same limit, current and
\* details, the same message and details.
C19_OnlyKeyPrefixExposed ==
  \A st \in Records :
    CalledBy(st, "rate_limiter")
      => /\ PassedGates(st)
              => /\ Get(st.alert).message = st.opts.message
                 /\ Get(st.alert).details = Get(st.opts.details)
         /\ \A k1, k2 \in ApiKeys, l \in Limits, c \in Currents, d \in CallerDetails :
              (/\ st.opts = alertRateLimitExceeded(k1, l, c, d)
               /\ AgreeOnPrefix(k1, k2, KeyPrefixLength))
                => /\ alertRateLimitExceeded(k2, l, c, d).message = st.opts.message
                   /\ alertRateLimitExceeded(k2, l, c, d).details = st.opts.details

C19_Witness ==
  /\ returned.pc = "done"
  /\ PassedGates(returned)
  /\ Get(returned.alert).message = "API key vg_abcdefx... excedeu limite (150/100)."
  /\ Get(returned.alert).details =
       << <<"api_key_prefix", Str("vg_abcdefx")>>, <<"limit", Num("100")>>,
          <<"current", Num("150")>>, <<"tenant", Str("t1")>> >>
  /\ \E k1, k2 \in ApiKeys, l \in Limits, c \in Currents, d \in CallerDetails :
       /\ k1 # k2 /\ Len(k1) > KeyPrefixLength
       /\ returned.opts = alertRateLimitExceeded(k1, l, c, d)
       /\ returned.opts = alertRateLimitExceeded(k2, l, c, d)

\* The risk score a call of alertInjectionDetected was made with, in
\* hundredths: its details carry it as risk_score.
RiskOf(st) ==
  CHOOSE r \in RiskScores :
    \E i \in 1..Len(Get(st.opts.details)) :
      Get(st.opts.details)[i] = <<"risk_score", Num(NumberText(r))>>

\* C20: every alertInjectionDetected call sends with severity critical if
\* its risk score is at least 0.8, error if it is at least 0.5 and below 0.8,
\* warning below 0.5, with source prompt_injection_detector and without
\* bypassCooldown.
C20_InjectionSeverityFromRisk ==
  \A st \in Records :
    (st.pc # "idle" /\ st.opts.title = "Prompt Injection Detectado")
      => /\ st.opts.source = Some("prompt_injection_detector")
         /\ ~st.opts.bypassCooldown
         /\ \E r \in RiskScores, t \in InjectionTypes, a \in Actions :
              st.opts = alertInjectionDetected(t, r, a, Undefined)
         /\ RiskOf(st) * 10 >= 8 * Hundred => st.opts.severity = Some("critical")
         /\ (RiskOf(st) * 10 >= 5 * Hundred /\ RiskOf(st) * 10 < 8 * Hundred)
              => st.opts.severity = Some("error")
         /\ RiskOf(st) * 10 < 5 * Hundred => st.opts.severity = Some("warning")
         /\ PassedGates(st) => Get(st.alert).severity = Get(st.opts.severity)

\* A call at the threshold 0.8 itself, sent as critical.
C20_Witness ==
  /\ returned.pc = "done"
  /\ PassedGates(returned)
  /\ returned.opts.title = "Prompt Injection Detectado"
  /\ RiskOf(returned) = 80
  /\ Get(returned.alert).severity = "critical"
  /\ Get(returned.alert).message =
       "Tentativa de injection tipo 'jailbreak' com score 0.80. Ação: blocked"

\* The status code a call of alertApiError was made with: its details carry
\* it as status_code, undefined when none was given.
StatusOf(st) ==
  CHOOSE c \in StatusCodes :
    \E i \in 1..Len(Get(st.opts.details)) :
      Get(st.opts.details)[i] =
        <<"status_code", IF c = Undefined THEN Undef ELSE Num(ToString(Get(c)))>>

\* C21: every alertApiError call sends with severity error if a status code
\* of at least 500 was given and warning otherwise, also when none was given,
\* with source api and without bypassCooldown.
C21_ApiErrorSeverityFromStatus ==
  \A st \in Records :
    (st.pc # "idle" /\ st.opts.title = "Erro na API")
      => /\ st.opts.source = Some("api")
         /\ ~st.opts.bypassCooldown
         /\ \E e \in Endpoints, m \in ErrorMessages, c \in StatusCodes :
              st.opts = alertApiError(e, m, c, Undefined)
         /\ StatusOf(st) = Undefined => st.opts.severity = Some("warning")
         /\ StatusOf(st) # Undefined
              => (st.opts.severity =
                    Some(IF Get(StatusOf(st)) >= 500 THEN "error" ELSE "warning"))
         /\ PassedGates(st) => Get(st.alert).severity = Get(st.opts.severity)

\* A call without a status code, sent as warning.
C21_Witness ==
  /\ returned.pc = "done"
  /\ PassedGates(returned)
  /\ returned.opts.title = "Erro na API"
  /\ StatusOf(returned) = Undefined
  /\ Get(returned.alert).severity = "warning"
  /\ returned.logCalls # <<>>
  /\ returned.logCalls[1].args[1] =
       "[ALERT] Erro na API | Endpoint /search retornou erro: timeout | severity=warning | source=api | details={\"endpoint\":\"/search\",\"error_message\":\"timeout\"}"

\* The sends suspended on a POST they issued.
Posting == {sends[p] : p \in {q \in Slots : sends[q].pc = "await" /\ sends[q].fetching}}

IsLetterOrDigit(c) ==
  \/ IsWordChar(c) /\ c # "_"
  \/ c \in DOMAIN UpperOfAccented

\* The key with underscores turned into spaces and the first letter of each
\* word, and no other, in upper case.
TitleCased(chars) ==
  [i \in 1..Len(chars) |->
     IF chars[i] = "_" THEN " "
     ELSE IF IsLetterOrDigit(chars[i]) /\ (i = 1 \/ ~IsLetterOrDigit(chars[i - 1]))
     THEN toUpperCaseChar(chars[i])
     ELSE chars[i]]

\* The first n characters of a text, or all of it when it has fewer.
Truncated(chars, n) == SubSeq(chars, 1, IF Len(chars) < n THEN Len(chars) ELSE n)

SlackFieldsOf(st) == PostedPayload(st).attachments[1].fields

\* C23: the fields of a Slack payload are Severidade (the severity in upper
\* case), Fonte (the source), then one field per details entry in the details'
\* order, titled by the key with underscores as spaces and each word's first
\* letter capitalized, holding the stringified value cut to 100 characters.
C23_SlackFields ==
  \A st \in Posting :
    config.webhookType = "slack" =>
      LET alert == Get(st.alert)
          fields == SlackFieldsOf(st)
      IN /\ Len(fields) = 2 + Len(alert.details)
         /\ fields[1].title = "Severidade"
         /\ fields[1].value = Join(toUpperCase(Chars(alert.severity)))
         /\ fields[1].value \in {"INFO", "WARNING", "ERROR", "CRITICAL"}
         /\ fields[2].title = "Fonte"
         /\ fields[2].value = alert.source
         /\ \A i \in 1..Len(alert.details) :
              /\ fields[2 + i].title = Join(TitleCased(Chars(alert.details[i][1])))
              /\ fields[2 + i].value =
                   Join(Truncated(Chars(StringOf(alert.details[i][2])), FieldValueLength))

\* The accented key reaches a Slack payload, titled "CóDigo".
C23_AccentedKeyPosted ==
  \E st \in Posting :
    /\ config.webhookType = "slack"
    /\ Len(SlackFieldsOf(st)) = 3
    /\ SlackFieldsOf(st)[3].title = "CóDigo"
\* C24: a send the cooldown gate drops leaves the key's timestamp as it was,
\* so the stored timestamp is always that of the key's last successful send,
\* however many sends were dropped since; and a send without bypassCooldown
\* that starts cooldownSeconds or more after that timestamp passes the
\* cooldown gate.
C24_SuppressedDoesNotRefresh ==
  [][/\ (returned'.pc = "done" /\ DroppedByCooldown(returned'))
          => /\ cooldownCache' = cooldownCache
             /\ returned'.alertType \in DOMAIN cooldownCache'
     /\ \A k \in DOMAIN cooldownCache' :
          k \in DOMAIN lastSuccess' /\ cooldownCache'[k] = lastSuccess'[k]
     /\ \A st \in RecordsNext :
          (/\ StartedNow(st)
           /\ ~BelowMinSeverity(st)
           /\ ~st.opts.bypassCooldown
           /\ st.alertType \in DOMAIN cooldownCache
           /\ clock - cooldownCache[st.alertType] >= CooldownMs)
            => PassedGates(st)]_vars

\* A send was dropped half a second after the key's last successful send, and
\* the stored timestamp is still that of the successful send.
C24_Witness ==
  /\ returned.pc = "done"
  /\ DroppedByCooldown(returned)
  /\ ~returned.opts.bypassCooldown
  /\ LastSuccessAgo(returned, TickMs)
  /\ cooldownCache[returned.alertType] = clock - TickMs

\* C25: bypassCooldown skips the read of the cooldown table, not the write: a
\* send with bypassCooldown that returns with sent=true stores the current
\* time under its key, and a send of that key without bypassCooldown that
\* follows within cooldownSeconds is dropped.
C25_BypassStillWritesCooldown ==
  [][/\ (returned'.pc = "done" /\ returned'.result.sent
                               /\ returned'.opts.bypassCooldown)
          => /\ returned'.alertType \in DOMAIN cooldownCache'
             /\ cooldownCache'[returned'.alertType] = clock'
     /\ \A st \in RecordsNext :
          (/\ StartedNow(st)
           /\ returned.pc = "done" /\ returned.result.sent
           /\ returned.opts.bypassCooldown
           /\ st.alertType = returned.alertType
           /\ ~st.opts.bypassCooldown
           /\ ~BelowMinSeverity(st)
           /\ CooldownMs > 0)
            => st.pc = "done" /\ st.result = EmptyResult]_vars

\* A send with bypassCooldown succeeded after the clock's first reading and
\* its time is in the table.
C25_Witness ==
  /\ returned.pc = "done"
  /\ returned.result.sent
  /\ returned.opts.bypassCooldown
  /\ CooldownMs > 0
  /\ clock > TickMs
  /\ cooldownCache[returned.alertType] = clock
\* C26: bypassCooldown does not override the severity gate, which comes
\* first: a send with bypassCooldown whose severity ranks below minSeverity
\* returns {sent:false, channels:[]} in the step it is called, whatever the
\* cooldown table holds, and changes nothing: not the table, not the handler,
\* not the configuration, and no channel is tried.
C26_BypassDoesNotOverrideSeverity ==
  [][\A st \in RecordsNext :
       (StartedNow(st) /\ st.opts.bypassCooldown /\ BelowMinSeverity(st))
         => /\ st = returned' /\ st.pc = "done"
            /\ st.result.sent = FALSE /\ st.result.channels = <<>>
            /\ ~PassedGates(st)
            /\ AttemptedChannels(st) = <<>> /\ st.logCalls = <<>> /\ st.postN = 0
            /\ UNCHANGED <<config, cooldownCache, logHandler, clock, sends,
                           lastSuccess>>]_vars

\* An error alert with bypassCooldown was dropped by a dispatcher that takes
\* critical alerts only, at a time its key's cooldown had run out.
C26_Witness ==
  /\ returned.pc = "done"
  /\ returned.opts.bypassCooldown
  /\ returned.opts.severity = Some("error")
  /\ config.minSeverity = "critical"
  /\ returned.result = EmptyResult
  /\ returned.alertType \in DOMAIN cooldownCache
  /\ clock - cooldownCache[returned.alertType] >= CooldownMs
\* C27: alerts with different (source, title) pairs never suppress each
\* other (the key is an injective function of the pair): a send is dropped by
\* the cooldown gate only when a send of its own pair succeeded less than
\* cooldownSeconds before.
C27_DifferentPairsNeverSuppress ==
  (returned.pc = "done" /\ DroppedByCooldown(returned))
    => /\ PairOf(returned.opts) \in DOMAIN lastSuccessOfPair
       /\ clock - lastSuccessOfPair[PairOf(returned.opts)] < CooldownMs

\* Source "a" with title "b:c" was dropped although only source "a:b" with
\* title "c" had succeeded.
C27_PairsCollide ==
  /\ returned.pc = "done"
  /\ DroppedByCooldown(returned)
  /\ PairOf(returned.opts) = <<"a", "b:c">>
  /\ DOMAIN lastSuccessOfPair = {<<"a:b", "c">>}
\* C28: a dispatcher constructed with webhookEnabled=false never contacts the
\* webhook: no send of it issues an HTTP POST, whatever its channels and its
\* webhookUrl.
C28_DisabledWebhookNeverPosts ==
  ~config.webhookEnabled => \A st \in Records : st.postN = 0

\* A send of a dispatcher with webhookEnabled=false has a POST in flight.
C28_DisabledWebhookPosted ==
  /\ ~config.webhookEnabled
  /\ \E st \in Posting : st.postN = 1
\* C29: a send of key K changes at most the cooldown entry of K: in every
\* step no entry is removed, no timestamp decreases, and an entry that is new
\* or changed is that of the send that returns in the step, whatever sends
\* are suspended meanwhile.
C29_OnlyOwnEntryChanges ==
  [][/\ DOMAIN cooldownCache \subseteq DOMAIN cooldownCache'
     /\ \A k \in DOMAIN cooldownCache : cooldownCache'[k] >= cooldownCache[k]
     /\ \A k \in DOMAIN cooldownCache' :
          (k \notin DOMAIN cooldownCache \/ cooldownCache'[k] # cooldownCache[k])
            => /\ returned'.pc = "done"
               /\ returned'.alertType = k
               /\ cooldownCache'[k] = clock]_vars

\* A send returned and refreshed its key's entry while another send was
\* suspended and the other key's entry, an older one, stayed.
C29_Witness ==
  /\ returned.pc = "done"
  /\ returned.result.sent
  /\ \E p \in Slots : sends[p].pc = "await"
  /\ cooldownCache[returned.alertType] = clock
  /\ \E k \in DOMAIN cooldownCache :
       k # returned.alertType /\ cooldownCache[k] < clock
\* C30: constructing a dispatcher leaves the caller's channels array as the
\* caller wrote it, and a dispatcher's channel list is its own: one built
\* with webhook disabled from an array written without webhook has no
\* webhook among its channels, whatever dispatchers were built from the array
\* before.
C30_ConstructorLeavesCallerArray ==
  callerChannels # Undefined =>
    /\ callerChannels.now = callerChannels.written
    /\ (~config.webhookEnabled /\ ~includes(callerChannels.written, "webhook"))
         => ~includes(config.channels, "webhook")

\* A dispatcher built with webhook disabled from an array written without
\* webhook has the webhook channel, and a send of it has a POST in flight.
C30_SecondDispatcherPosts ==
  /\ callerChannels # Undefined
  /\ ~config.webhookEnabled
  /\ ~includes(callerChannels.written, "webhook")
  /\ includes(config.channels, "webhook")
  /\ Posting # {}
====
